---- MODULE Spec2Model ----
(***************************************************************************)
(* The maintenance operations of code/maintenance_entries.py               *)
(* (EntriesMaintainer and its helpers create_toc and sort_text_file) as a  *)
(* state machine over the entry store, the TOC directory, the readme, the  *)
(* statistics file and the backlog and rejected lists.                     *)
(*                                                                         *)
(* Texts are TLA+ strings handled character by character, so that sorting, *)
(* case folding, splitting and prefix tests are computed as Python does.   *)
(***************************************************************************)
EXTENDS Integers, Sequences, FiniteSets, TLC

(***************************************************************************)
(* Python str primitives                                                   *)
(***************************************************************************)

\* the printable ASCII characters in code point order, in three runs: 32..33,
\* 35..95 and 97..126 (the double quote 34 and the backtick 96 occur in no text
\* of the maintainer)
AsciiLow == " !"
AsciiMid == "#$%&'()*+,-./0123456789:;<=>?@ABCDEFGHIJKLMNOPQRSTUVWXYZ[\\]^_"
AsciiHigh == "abcdefghijklmnopqrstuvwxyz{|}~"

NL == "\n"

Char(s, i) == SubSeq(s, i, i)

\* ord(c) for a one-character string
OrdTable ==
  [n \in 32..33 |-> Char(AsciiLow, n - 31)] @@
  [n \in 35..95 |-> Char(AsciiMid, n - 34)] @@
  [n \in 97..126 |-> Char(AsciiHigh, n - 96)] @@
  [n \in {10} |-> NL] @@
  [n \in {34} |-> "\""]

OrdOf == [c \in {OrdTable[n] : n \in DOMAIN OrdTable} |->
            CHOOSE n \in DOMAIN OrdTable : OrdTable[n] = c]

Ord(c) == OrdOf[c]

Chr(n) == OrdTable[n]

LowerChar(c) == IF Ord(c) \in 65..90 THEN Chr(Ord(c) + 32) ELSE c
UpperChar(c) == IF Ord(c) \in 97..122 THEN Chr(Ord(c) - 32) ELSE c

\* str.lower, character by character (the text is halved to keep the evaluation shallow)
RECURSIVE lower(_)
lower(s) ==
  IF s = "" THEN ""
  ELSE IF Len(s) = 1 THEN LowerChar(s)
  ELSE lower(SubSeq(s, 1, Len(s) \div 2)) \o lower(SubSeq(s, (Len(s) \div 2) + 1, Len(s)))

\* str.casefold on ASCII text is str.lower
casefold(s) == lower(s)

\* str.capitalize: first character upper case, the rest lower case
capitalize(s) == IF s = "" THEN "" ELSE UpperChar(Char(s, 1)) \o lower(SubSeq(s, 2, Len(s)))

\* a < b for Python strings: lexicographic by code point
StrLess(a, b) ==
  \E pair \in {<<a, b>>} :
    LET x == pair[1]
        y == pair[2]
        differ == {i \in 1..Len(x) : i > Len(y) \/ Char(x, i) # Char(y, i)}
        first == CHOOSE i \in differ : \A j \in differ : i <= j
    IN IF differ = {} THEN Len(x) < Len(y)
       ELSE first <= Len(y) /\ Ord(Char(x, first)) < Ord(Char(y, first))

startswith(s, p) == Len(s) >= Len(p) /\ SubSeq(s, 1, Len(p)) = p
endswith(s, p) == Len(s) >= Len(p) /\ SubSeq(s, Len(s) - Len(p) + 1, Len(s)) = p

\* s.find(p, from) with 1-based positions; 0 when p does not occur at or after from
RECURSIVE find(_, _, _)
find(s, p, from) ==
  IF from + Len(p) - 1 > Len(s) THEN 0
  ELSE IF SubSeq(s, from, from + Len(p) - 1) = p THEN from
  ELSE find(s, p, from + 1)

\* s.replace(a, b) for a one-character a
RECURSIVE replace(_, _, _)
replace(s, a, b) ==
  IF s = "" THEN ""
  ELSE (IF Char(s, 1) = a THEN b ELSE Char(s, 1)) \o replace(SubSeq(s, 2, Len(s)), a, b)

\* s.split(sep): the pieces between the occurrences of sep, at least one piece
RECURSIVE split(_, _)
split(s, sep) ==
  LET i == find(s, sep, 1)
  IN IF i = 0 THEN <<s>>
     ELSE <<SubSeq(s, 1, i - 1)>> \o split(SubSeq(s, i + Len(sep), Len(s)), sep)

\* sep.join(seq)
RECURSIVE join(_, _)
join(sep, seq) ==
  IF seq = <<>> THEN ""
  ELSE IF Len(seq) = 1 THEN seq[1]
  ELSE seq[1] \o sep \o join(sep, Tail(seq))

\* s.strip() of blanks and line breaks
RECURSIVE strip(_)
strip(s) ==
  IF s = "" THEN ""
  ELSE IF Char(s, 1) \in {" ", NL} THEN strip(SubSeq(s, 2, Len(s)))
  ELSE IF Char(s, Len(s)) \in {" ", NL} THEN strip(SubSeq(s, 1, Len(s) - 1))
  ELSE s

\* str(n) for a natural number
Digits == "0123456789"
RECURSIVE str(_)
str(n) == IF n < 10 THEN Char(Digits, n + 1) ELSE str(n \div 10) \o Char(Digits, (n % 10) + 1)

(***************************************************************************)
(* Python list primitives                                                  *)
(***************************************************************************)

\* list.sort / sorted: stable, by insertion; less(a, b) is key(a) < key(b)
RECURSIVE InsertSorted(_, _, _)
InsertSorted(less(_, _), x, sorted) ==
  IF sorted = <<>> THEN <<x>>
  ELSE IF less(x, Head(sorted)) THEN <<x>> \o sorted
  ELSE <<Head(sorted)>> \o InsertSorted(less, x, Tail(sorted))

RECURSIVE StableSort(_, _)
StableSort(less(_, _), seq) ==
  IF seq = <<>> THEN <<>>
  ELSE InsertSorted(less, seq[Len(seq)], StableSort(less, SubSeq(seq, 1, Len(seq) - 1)))

\* [x for x in seq if keep(x)]
RECURSIVE Filter(_, _)
Filter(keep(_), seq) ==
  IF seq = <<>> THEN <<>>
  ELSE (IF keep(Head(seq)) THEN <<Head(seq)>> ELSE <<>>) \o Filter(keep, Tail(seq))

\* list concatenation of a list of lists
RECURSIVE Flatten(_)
Flatten(seqs) == IF seqs = <<>> THEN <<>> ELSE Head(seqs) \o Flatten(Tail(seqs))

Range(seq) == {seq[i] : i \in DOMAIN seq}

\* seq.count(x)
count(seq, x) == Cardinality({i \in DOMAIN seq : seq[i] = x})

\* list(set): the elements once each, in an iteration order Python does not fix
ListsOfSet(S) == {q \in [1..Cardinality(S) -> S] : Range(q) = S}

(***************************************************************************)
(* utils/constants.py                                                      *)
(***************************************************************************)

valid_platforms == <<"Windows", "Linux", "macOS", "Android", "iOS", "Web">>

recommended_keywords ==
  <<"action", "arcade", "adventure", "visual novel", "sports", "platform", "puzzle",
    "role playing", "simulation", "strategy", "cards", "board", "music", "educational",
    "tool", "game engine", "framework", "library", "remake">>

url_fields == <<"Home", "Media", "Play", "Download", "Code repository">>

code_dependencies_aliases ==
  [n \in {"Simple DirectMedia Layer", "Simple and Fast Multimedia Library",
          "Boost (C++ Libraries)", "SGE Game Engine", "MegaGlest"} |->
     CASE n = "Simple DirectMedia Layer" -> <<"SDL", "SDL2">>
       [] n = "Simple and Fast Multimedia Library" -> <<"SFML">>
       [] n = "Boost (C++ Libraries)" -> <<"Boost">>
       [] n = "SGE Game Engine" -> <<"SGE">>
       [] n = "MegaGlest" -> <<"MegaGlest Engine">>]

general_code_dependencies_without_entry ==
  <<"OpenGL", "GLUT", "WebGL", "Unity", ".NET", "Vulkan", "KDE Frameworks", "jQuery",
    "node.js", "GNU Guile", "tkinter">>

(***************************************************************************)
(* Entries: an entry maps field names to lists of values; File and Title   *)
(* are plain strings; Building is a nested mapping. A value is a text with *)
(* an optional comment.                                                    *)
(***************************************************************************)

Value(v) == [value |-> v, comment |-> ""]
ValueC(v, c) == [value |-> v, comment |-> c]
Values(seq) == [i \in DOMAIN seq |-> Value(seq[i])]

\* the texts of a list of values: [x.value for x in values]
texts(values) == [i \in DOMAIN values |-> values[i].value]

\* s in values: a value compares equal to its text
In(s, values) == \E i \in DOMAIN values : values[i].value = s

\* field in entry
Has(entry, field) == field \in DOMAIN entry

\* entry.get(field, [])
Get(entry, field) == IF Has(entry, field) THEN entry[field] ELSE <<>>

NoBuilding == [f \in {} |-> <<>>]

EntryFoo ==
  [File |-> "foo.md", Title |-> "Foo",
   Home |-> Values(<<"http://a.com">>),
   State |-> Values(<<"mature">>),
   Play |-> Values(<<"http://a.com/play">>),
   Keywords |-> Values(<<"action", "multiplayer online">>),
   Building |-> NoBuilding] @@
  ("Code repository" :> Values(<<"https://github.com/a/foo.git">>)) @@
  ("Code language" :> Values(<<"C">>)) @@
  ("Code license" :> Values(<<"MIT">>))

EntryFoo2 ==
  [File |-> "foo_2.md", Title |-> "Foo 2",
   Home |-> Values(<<"https://foo2.org/">>),
   State |-> Values(<<"beta">>),
   Play |-> Values(<<"https://foo2.org/play">>),
   Download |-> Values(<<"@see-home">>),
   Platform |-> Values(<<"Web", "Linux">>),
   Keywords |-> Values(<<"tool", "framework">>),
   Building |-> ("Build system" :> Values(<<"CMake">>))] @@
  ("Code repository" :> Values(<<"https://gitlab.com/a/foo2.git",
                                  "https://svn.code.sf.net/p/foo2/code @add">>)) @@
  ("Code language" :> Values(<<"C++", "Lua">>)) @@
  ("Code license" :> Values(<<"GPL-3.0">>)) @@
  ("Code dependencies" :> Values(<<"SDL2", "bar", "MegaGlest Engine">>))

Entrybar ==
  [File |-> "bar.md", Title |-> "bar",
   Home |-> Values(<<"http://bar.net">>),
   State |-> Values(<<"beta", "inactive since 2010">>),
   Play |-> Values(<<"http://bar.net/play">>),
   Platform |-> Values(<<"Linux">>),
   Keywords |-> Values(<<"library", "multiplayer LAN">>),
   Building |-> ("Build system" :> Values(<<"Make", "CMake">>))] @@
  ("Code repository" :> Values(<<"https://example.org/hg/bar">>)) @@
  ("Code language" :> Values(<<"Lua">>)) @@
  ("Code license" :> Values(<<"MIT">>)) @@
  ("Code dependencies" :> Values(<<"Qt", "SDL2", "OpenGL", "MegaGlest">>))

EntryFOO ==
  [File |-> "b.md", Title |-> "FOO",
   Home |-> Values(<<"https://web.archive.org/web/2018/http://b.com/">>),
   State |-> Values(<<"mature">>),
   Platform |-> Values(<<"Windows", "Linux">>),
   Keywords |-> Values(<<"puzzle">>),
   Building |-> ("Build system" :> Values(<<"Make">>))] @@
  ("Code repository" :> <<>>) @@
  ("Code language" :> Values(<<"LUA", "C">>)) @@
  ("Code license" :> Values(<<"mit">>))

EntryMegaGlest ==
  [File |-> "megaglest.md", Title |-> "MegaGlest",
   Home |-> Values(<<"https://web.archive.org/web/2012/www.megaglest.org">>),
   State |-> Values(<<"mature">>),
   Download |-> <<ValueC("@see-home", "mirror")>>,
   Keywords |-> Values(<<"strategy", "game engine">>),
   Building |-> NoBuilding] @@
  ("Code repository" :> Values(<<"https://github.com/a/megaglest.git">>)) @@
  ("Code language" :> Values(<<"Python">>)) @@
  ("Code license" :> Values(<<"zlib">>))

\* the entry files that can be in the entries directory
EntryPool == {EntryFoo, EntryFoo2, Entrybar, EntryFOO, EntryMegaGlest}

\* most entry files in the entries directory
MaxEntries == 3

\* the entries directory: entry files with distinct names, in directory order
Stores(n) ==
  UNION {{q \in [1..k -> EntryPool] : \A i, j \in 1..k : i # j => q[i] # q[j]} : k \in 0..n}

(***************************************************************************)
(* State                                                                   *)
(***************************************************************************)

\* self.entries: None before read_entries, a list of entries after it
None == [is_none |-> TRUE, list |-> <<>>]
List(es) == [is_none |-> FALSE, list |-> es]

VARIABLES
  entries,                \* self.entries: None or the list of entries
  entry_files,            \* the entry files of the entries directory, as parsed
  tocs,                   \* the TOC directory: file name -> lines of the file
  readme,                 \* README.md, as its lines
  statistics_file,        \* statistics.md: no line before update_statistics wrote it
  backlog_file,           \* code/backlog.txt, as its lines
  rejected_file,          \* code/rejected.txt, as its lines
  json_files,             \* data.json, archives.json, git_repositories.json: name -> content
  console,                \* what the last operation wrote to the console
  network,                \* the requests the last operation sent and their answers, in order
  last_op,                \* the last operation invoked
  outcome                 \* how it ended: "returned" or the exception it raised

vars == <<entries, entry_files, tocs, readme, statistics_file, backlog_file,
          rejected_file, json_files, console, network, last_op, outcome>>

files == <<entry_files, tocs, readme, statistics_file, backlog_file, rejected_file, json_files>>

\* an operation that sends no request ends: its console output and how it ended
Ends(op, out, how) == console' = out /\ network' = <<>> /\ last_op' = op /\ outcome' = how

\* the early return of an operation that needs the store: if not self.entries
NotLoaded(op) ==
  /\ entries = None \/ entries = List(<<>>)
  /\ Ends(op, <<"entries not yet loaded">>, "returned")
  /\ UNCHANGED <<entries, files>>

Loaded == entries # None /\ entries # List(<<>>)

(***************************************************************************)
(* read_entries, write_entries                                             *)
(***************************************************************************)

read_entries ==
  /\ entries' = List(entry_files)
  /\ Ends("read_entries", <<str(Len(entry_files)) \o " entries read">>, "returned")
  /\ UNCHANGED files

write_entries ==
  \/ NotLoaded("write_entries")
  \/ /\ Loaded
     /\ entry_files' = entries.list
     /\ Ends("write_entries", <<"entries written">>, "returned")
     /\ UNCHANGED <<entries, tocs, readme, statistics_file, backlog_file, rejected_file,
                    json_files>>

(***************************************************************************)
(* create_toc and update_readme_tocs                                       *)
(***************************************************************************)

\* the row of an entry in a TOC document
TocRow(entry) ==
  LET info == texts(entry["Code language"] \o entry["Code license"] \o entry["State"])
  IN "- **[" \o entry["Title"] \o "](../" \o entry["File"] \o ")** (" \o join(", ", info) \o ")"

CasefoldLess(a, b) == StrLess(casefold(a), casefold(b))

\* rows.sort(key=str.casefold)
SortRows(rows) == StableSort(CasefoldLess, rows)

\* the lines of the text create_toc writes: the header, then the rows joined by line breaks
TocText(title, members) ==
  LET rows == SortRows([i \in DOMAIN members |-> TocRow(members[i])])
  IN <<"[comment]: # (autogenerated content, do not edit)", "# " \o title, "">>
       \o (IF rows = <<>> THEN <<"">> ELSE rows)

\* utils.write_text(file, text) in directory dir
WriteFile(dir, file, text) ==
  [f \in DOMAIN dir \cup {file} |-> IF f = file THEN text ELSE dir[f]]

create_toc(dir, title, file, members) == WriteFile(dir, file, TocText(title, members))

\* for file in os.listdir(c.tocs_path): os.remove(...)
EmptyDir == [f \in {} |-> <<>>]

StartPattern == "[comment]: # (start"
EndPattern == "end of autogenerated content)"
StartMarker == "[comment]: # (start of autogenerated content, do not edit)"
EndMarker == "[comment]: # (end of autogenerated content)"

IsStartLine(line) == startswith(line, StartPattern)
IsEndLine(line) == endswith(line, EndPattern)

\* regex.findall(readme_text) for (.*?)(start.*?end)(.*) with DOTALL, on a readme whose
\* markers begin and end their lines: the first start line that an end line follows,
\* the first end line from there on, and all the rest; at most one match, since the
\* last group takes the rest of the text
FindRegion(lines) ==
  LET starts == {i \in DOMAIN lines :
                   IsStartLine(lines[i]) /\ \E j \in i..Len(lines) : IsEndLine(lines[j])}
  IN IF starts = {} THEN <<>>
     ELSE LET i == CHOOSE a \in starts : \A b \in starts : a <= b
              j == CHOOSE a \in i..Len(lines) :
                     IsEndLine(lines[a]) /\ \A b \in i..(a - 1) : ~IsEndLine(lines[b])
          IN <<[start |-> SubSeq(lines, 1, i - 1),
                region |-> SubSeq(lines, i, j),
                end |-> SubSeq(lines, j + 1, Len(lines))]>>

PrimaryKeywords == <<"tool", "framework", "library">>

\* games, tools, frameworks, libraries
Games(es) == Filter(LAMBDA x : ~\E k \in DOMAIN PrimaryKeywords : In(PrimaryKeywords[k], x["Keywords"]), es)
Tools(es) == Filter(LAMBDA x : In("tool", x["Keywords"]), es)
Frameworks(es) == Filter(LAMBDA x : In("framework", x["Keywords"]), es)
Libraries(es) == Filter(LAMBDA x : In("library", x["Keywords"]), es)

WithKeyword(es, keyword) == Filter(LAMBDA x : In(keyword, x["Keywords"]), es)
WithPlatform(es, platform) == Filter(LAMBDA x : In(platform, Get(x, "Platform")), es)

SummaryLink(title, file, anchor, n) ==
  "**[" \o title \o "](entries/tocs/" \o file \o "#" \o anchor \o ")** (" \o str(n) \o ")"

\* the TOC documents of one run, in the order create_toc is called
PrimaryTocs(es) ==
  <<[title |-> "Games", file |-> "_games.md", anchor |-> "Games", members |-> Games(es)],
    [title |-> "Tools", file |-> "_tools.md", anchor |-> "Tools", members |-> Tools(es)],
    [title |-> "Frameworks", file |-> "_frameworks.md", anchor |-> "Frameworks",
     members |-> Frameworks(es)],
    [title |-> "Libraries", file |-> "_libraries.md", anchor |-> "Libraries",
     members |-> Libraries(es)]>>

CategoryTocs(es) ==
  [k \in DOMAIN recommended_keywords |->
     LET keyword == recommended_keywords[k]
         name == replace(keyword, " ", "-")
     IN [title |-> capitalize(keyword), file |-> "_" \o name \o ".md", anchor |-> name,
         members |-> WithKeyword(es, keyword)]]

PlatformTocs(es) ==
  [k \in DOMAIN valid_platforms |->
     LET platform == valid_platforms[k]
         name == lower(platform)
     IN [title |-> platform, file |-> "_" \o name \o ".md", anchor |-> name,
         members |-> WithPlatform(es, platform)]]

Links(docs) ==
  [k \in DOMAIN docs |->
     SummaryLink(docs[k].title, docs[k].file, docs[k].anchor, Len(docs[k].members))]

\* the lines of tocs_text
PrimaryLine(es) == join(" - ", Links(PrimaryTocs(es)))
CategoryLine(es) == "By category: " \o join(", ", StableSort(StrLess, Links(CategoryTocs(es))))
PlatformLine(es) == "By platform: " \o join(", ", Links(PlatformTocs(es)))

TocsText(es) == <<PrimaryLine(es), "", CategoryLine(es), "", PlatformLine(es), "">>

\* NewReadme without the text after the region
NewReadmeWithoutEnd(match, tocs_text) ==
  match.start \o <<StartMarker>> \o tocs_text \o <<EndMarker>>

\* NewReadme with the old region left in place after the new one
NewReadmeKeepsOldRegion(match, tocs_text) ==
  match.start \o <<StartMarker>> \o tocs_text \o <<EndMarker>> \o match.region \o match.end

\* text = start + start marker + tocs_text + end marker + end
NewReadme(match, tocs_text) ==
  match.start \o <<StartMarker>> \o tocs_text \o <<EndMarker>> \o match.end

\* the create_toc calls of one run on directory dir, in the order of docs: a file
\* holds what the last call that names it wrote
WriteTocs(dir, docs) ==
  LET names == {docs[k].file : k \in DOMAIN docs}
      last(f) == CHOOSE k \in DOMAIN docs :
                   docs[k].file = f /\ \A j \in DOMAIN docs : docs[j].file = f => j <= k
  IN [f \in DOMAIN dir \cup names |->
        IF f \in names
        THEN create_toc(dir, docs[last(f)].title, f, docs[last(f)].members)[f]
        ELSE dir[f]]

\* update_readme_tocs without the deletion of the content of the TOC directory
update_readme_tocs_on_old_files ==
  LET matches == FindRegion(readme)
  IN /\ tocs' = (IF Len(matches) # 1 \/ entries = None THEN tocs
                 ELSE WriteTocs(tocs,
                        PrimaryTocs(entries.list) \o CategoryTocs(entries.list)
                          \o PlatformTocs(entries.list)))
     /\ readme' = (IF Len(matches) # 1 \/ entries = None THEN readme
                   ELSE NewReadme(matches[1], TocsText(entries.list)))
     /\ IF Len(matches) # 1
        THEN Ends("update_readme_tocs", <<>>, "RuntimeError: readme file has invalid structure")
        ELSE IF entries = None
        THEN Ends("update_readme_tocs", <<>>, "TypeError: 'NoneType' object is not iterable")
        ELSE Ends("update_readme_tocs", <<"Readme and TOCs updated">>, "returned")
     /\ UNCHANGED <<entries, entry_files, statistics_file, backlog_file, rejected_file,
                    json_files>>

update_readme_tocs ==
  LET matches == FindRegion(readme)
  IN /\ tocs' = (IF Len(matches) # 1 \/ entries = None THEN EmptyDir
                 ELSE WriteTocs(EmptyDir,
                        PrimaryTocs(entries.list) \o CategoryTocs(entries.list)
                          \o PlatformTocs(entries.list)))
     /\ readme' = (IF Len(matches) # 1 \/ entries = None THEN readme
                   ELSE NewReadme(matches[1], TocsText(entries.list)))
     /\ IF Len(matches) # 1
        THEN Ends("update_readme_tocs", <<>>, "RuntimeError: readme file has invalid structure")
        ELSE IF entries = None
        THEN Ends("update_readme_tocs", <<>>, "TypeError: 'NoneType' object is not iterable")
        ELSE Ends("update_readme_tocs", <<"Readme and TOCs updated">>, "returned")
     /\ UNCHANGED <<entries, entry_files, statistics_file, backlog_file, rejected_file,
                    json_files>>

(***************************************************************************)
(* check_inconsistencies                                                   *)
(***************************************************************************)

\* the values of a field over all entries, in store order
AllValues(es, field) == Flatten([i \in DOMAIN es |-> texts(Get(es[i], field))])

\* reduce those starting with "multiplayer"
Collapse(keywords) ==
  [i \in DOMAIN keywords |->
     IF startswith(keywords[i], "multiplayer") THEN "multiplayer" ELSE keywords[i]]

\* the elements of a list once each, in the order of their first occurrence (dict keys)
Unique(seq) ==
  LET firsts == {i \in DOMAIN seq : \A j \in 1..(i - 1) : seq[j] # seq[i]}
  IN [k \in 1..Cardinality(firsts) |->
        seq[CHOOSE i \in firsts : Cardinality({j \in firsts : j <= i}) = k]]

\* all orders of the elements of a set
RECURSIVE Orders(_)
Orders(S) ==
  IF S = {} THEN {<<>>}
  ELSE UNION {{<<v>> \o q : q \in Orders(S \ {v})} : v \in S}

\* osg.name_similarity(a, b) > 0.8: names that differ by a trailing s
Similar(a, b) == a = b \o "s" \/ b = a \o "s"

\* list(set(keywords)): an order of the unique keywords; the orders differ in what is
\* written only when some pair is similar
KeywordOrders(keywords) ==
  IF \E a, b \in Range(keywords) : Similar(a, b)
  THEN Orders(Range(keywords))
  ELSE {Unique(keywords)}

SimilarLines(keywords, unique) ==
  LET pairs == Flatten([i \in DOMAIN unique |->
                 [k \in 1..(Len(unique) - i) |-> <<unique[i], unique[i + k]>>]])
      similar == Filter(LAMBDA pr : Similar(pr[1], pr[2]), pairs)
  IN [k \in DOMAIN similar |->
        " Keywords " \o similar[k][1] \o " (" \o str(count(keywords, similar[k][1])) \o ") - "
          \o similar[k][2] \o " (" \o str(count(keywords, similar[k][2])) \o ") are similar"]

DependencyKeywords == <<"framework", "library", "game engine">>

\* the names an entry adds to the valid dependencies
DependencyNames(entry) ==
  IF \E k \in DOMAIN DependencyKeywords : In(DependencyKeywords[k], entry["Keywords"])
  THEN IF entry["Title"] \in DOMAIN code_dependencies_aliases
       THEN code_dependencies_aliases[entry["Title"]]
       ELSE <<entry["Title"]>>
  ELSE <<>>

valid_dependencies(es) ==
  general_code_dependencies_without_entry \o Flatten([i \in DOMAIN es |-> DependencyNames(es[i])])

DependencyCountLess(a, b) == a[2] > b[2]

\* the referenced dependencies that are no valid dependency, with their number of
\* references, most referenced first
referenced_dependencies(es) ==
  LET deps == AllValues(es, "Code dependencies")
      names == Unique(deps)
      counted == [k \in DOMAIN names |-> <<names[k], count(deps, names[k])>>]
      valid == Range(valid_dependencies(es))
  IN StableSort(DependencyCountLess, Filter(LAMBDA d : d[1] \notin valid, counted))

DependencyLines(es) ==
  LET deps == referenced_dependencies(es)
  IN [k \in DOMAIN deps |-> deps[k][1] \o " (" \o str(deps[k][2]) \o ")"]

\* PlayFinding without the elif branch: only the missing Platform field is reported
PlayFindingWithoutElif(entry) ==
  IF Has(entry, "Play") /\ ~Has(entry, "Platform")
  THEN <<"Entry \"" \o entry["File"]
           \o "\" has \"Play\" field but not \"Platform\" field, add it with \"Web\"">>
  ELSE <<>>

\* if there is the "Play" field, it should have "Web" as Platform
PlayFinding(entry) ==
  IF Has(entry, "Play")
  THEN IF ~Has(entry, "Platform")
       THEN <<"Entry \"" \o entry["File"]
                \o "\" has \"Play\" field but not \"Platform\" field, add it with \"Web\"">>
       ELSE IF ~In("Web", entry["Platform"])
       THEN <<"Entry \"" \o entry["File"]
                \o "\" has \"Play\" field but not \"Web\" in \"Platform\" field">>
       ELSE <<>>
  ELSE <<>>

PlayFindings(es) == Flatten([i \in DOMAIN es |-> PlayFinding(es[i])])

\* the files of the entries with the keyword first-person (written with U+2010 in the
\* source)
FirstPersonLines(es) ==
  LET found == Filter(LAMBDA x : In("first-person", x["Keywords"]), es)
  IN [k \in DOMAIN found |-> found[k]["File"]]

check_inconsistencies ==
  \/ NotLoaded("check_inconsistencies")
  \/ /\ Loaded
     /\ LET keywords == Collapse(AllValues(entries.list, "Keywords"))
        IN \E unique_keywords \in KeywordOrders(keywords) :
             Ends("check_inconsistencies",
                  FirstPersonLines(entries.list)
                    \o SimilarLines(keywords, unique_keywords)
                    \o <<"Code dependencies not included as entry">>
                    \o DependencyLines(entries.list)
                    \o PlayFindings(entries.list),
                  "returned")
     /\ UNCHANGED <<entries, files>>

(***************************************************************************)
(* sort_text_file, clean_rejected, clean_backlog                           *)
(***************************************************************************)

\* the orders in which Python can list set(lines) sorted by key: the lines once each,
\* in the order of their keys, lines with the same key in any order
RECURSIVE Arrange(_, _, _)
Arrange(key(_), sorted, left) ==
  IF sorted = <<>> THEN {<<>>}
  ELSE UNION {{<<v>> \o q : q \in Arrange(key, Tail(sorted), left \ {v})} :
                v \in {w \in left : key(w) = key(Head(sorted))}}

\* sorted(list(set(text)), key=str.casefold)
SortedSet(lines) == Arrange(casefold, StableSort(CasefoldLess, Unique(lines)), Range(lines))

\* sort_text_file: print(name contains n items)
ItemsLine(name, lines) == name \o " contains " \o str(Len(lines)) \o " items"

clean_rejected ==
  /\ \E text \in SortedSet(rejected_file) :
       /\ rejected_file' = text
       /\ Ends("clean_rejected", <<ItemsLine("rejected games list", text)>>, "returned")
  /\ UNCHANGED <<entries, entry_files, tocs, readme, statistics_file, backlog_file, json_files>>

\* osg.all_urls(entries).keys(): the values of the url fields of the entries
all_urls(es) ==
  Unique(Flatten([i \in DOMAIN es |->
    Flatten([k \in DOMAIN url_fields |-> texts(Get(es[i], url_fields[k]))])]))

\* utils.strip_url: the url without a trailing slash
strip_url(url) == IF endswith(url, "/") THEN SubSeq(url, 1, Len(url) - 1) ELSE url

\* regex.findall of \((http.*?)\) in one line: the texts between "(" before http and
\* the next ")"
RECURSIVE RejectedMatches(_)
RejectedMatches(line) ==
  LET open == find(line, "(http", 1)
      close == find(line, ")", open + 1)
  IN IF open = 0 \/ close = 0 THEN <<>>
     ELSE <<SubSeq(line, open + 1, close - 1)>>
            \o RejectedMatches(SubSeq(line, close + 1, Len(line)))

\* the urls of the rejected file: each match split at the commas and stripped of blanks
rejected_urls(lines) ==
  LET matches == Flatten([i \in DOMAIN lines |-> RejectedMatches(lines[i])])
  IN Flatten([k \in DOMAIN matches |->
       LET urls == split(matches[k], ",") IN [u \in DOMAIN urls |-> strip(urls[u])]])

IsArchived(url) == startswith(url, "https://web.archive.org/web")

\* url.index('http', 5) fails: no http after the first five characters
NoOriginal(url) == find(url, "http", 6) = 0

\* url[url.index('http', 5):]
Original(url) == SubSeq(url, find(url, "http", 6), Len(url))

more_urls(urls) ==
  LET archived == Filter(IsArchived, urls)
  IN [k \in DOMAIN archived |-> Original(archived[k])]

\* the stripped urls of the entries, of the rejected file and of the archived originals
stripped_urls(es, rejected) ==
  LET included == all_urls(es) \o rejected_urls(rejected)
      all == included \o more_urls(included)
  IN {strip_url(all[k]) : k \in DOMAIN all}

\* remove those that are in stripped_urls
KeptLines(lines, stripped) == Filter(LAMBDA x : strip_url(x) \notin stripped, lines)

clean_backlog ==
  \/ NotLoaded("clean_backlog")
  \/ /\ Loaded
     /\ LET included == all_urls(entries.list) \o rejected_urls(rejected_file)
        IN IF \E k \in DOMAIN included : IsArchived(included[k]) /\ NoOriginal(included[k])
           THEN /\ Ends("clean_backlog", <<>>, "ValueError: substring not found")
                /\ UNCHANGED backlog_file
           ELSE \E text \in SortedSet(KeptLines(backlog_file,
                                        stripped_urls(entries.list, rejected_file))) :
                  /\ backlog_file' = text
                  /\ Ends("clean_backlog",
                          <<"backlog contains " \o str(Len(text)) \o " items", "backlog cleaned">>,
                          "returned")
     /\ UNCHANGED <<entries, entry_files, tocs, readme, statistics_file, rejected_file,
                    json_files>>

(***************************************************************************)
(* check_external_links                                                    *)
(***************************************************************************)

\* \s on the text of the entry files
IsSpace(c) == c = " " \/ c = NL

\* the first position at or after from of a character of the set stops, 0 if none
RECURSIVE FirstOf(_, _, _)
FirstOf(text, from, stops) ==
  IF from > Len(text) THEN 0
  ELSE IF Char(text, from) \in stops THEN from
  ELSE FirstOf(text, from + 1, stops)

\* a match of the regex that begins at position pos, as <<url, position after the match>>,
\* or <<>>: the three alternatives in their order,
\*   [\s\n]<(http.+?)>   \]\((http.+?)\)   [\s\n](http[^\s\n,]+?)[\s\n\)]
MatchAt(text, pos) ==
  LET at(p) == pos + Len(p) <= Len(text) /\ SubSeq(text, pos + 1, pos + Len(p)) = p
      angle == FirstOf(text, pos + 7, {">", NL})
      paren == FirstOf(text, pos + 7, {")", NL})
      bare == FirstOf(text, pos + 6, {" ", NL, ")", ","})
  IN IF IsSpace(Char(text, pos)) /\ at("<http") /\ angle > 0 /\ Char(text, angle) = ">"
     THEN <<SubSeq(text, pos + 2, angle - 1), angle + 1>>
     ELSE IF Char(text, pos) = "]" /\ at("(http") /\ paren > 0 /\ Char(text, paren) = ")"
     THEN <<SubSeq(text, pos + 2, paren - 1), paren + 1>>
     ELSE IF IsSpace(Char(text, pos)) /\ at("http") /\ bare > 0 /\ Char(text, bare) # ","
     THEN <<SubSeq(text, pos + 1, bare - 1), bare + 1>>
     ELSE <<>>

\* the matches in a text from position pos on, from the left, without overlap
RECURSIVE MatchesFrom(_, _)
MatchesFrom(text, pos) ==
  IF pos > Len(text) THEN <<>>
  ELSE LET match == MatchAt(text, pos)
       IN IF match = <<>> THEN MatchesFrom(text, pos + 1)
          ELSE <<match>> \o MatchesFrom(text, match[2])

\* regex.findall(content) for the content given as its lines, read line by line: no
\* match goes beyond a line break, and the line break that ends a match cannot begin
\* the next one (eaten)
RECURSIVE findall(_, _)
findall(lines, eaten) ==
  IF lines = <<>> THEN <<>>
  ELSE LET text == (IF eaten THEN "" ELSE NL) \o Head(lines) \o NL
           matches == MatchesFrom(text, 1)
       IN [k \in DOMAIN matches |-> matches[k][1]]
            \o findall(Tail(lines),
                       matches # <<>> /\ matches[Len(matches)][2] > Len(text))

\* the text of an entry file: the title, the url fields as "- Field: value, value" and
\* the free text of the entry, which names links in the three forms the regex knows
EntryNotes ==
  ("foo.md" :> <<"See <https://repo.or.cz/foo.git> and [mirror](https://example.com/repo.git) .">>) @@
  ("foo_2.md" :> <<"Clone https://example.com/repo.git", "or https://bitbucket.org/a/foo2.git now">>) @@
  ("bar.md" :> <<"Mirror https://example.com/mirror/bar.git.git and",
                 "old <https://gitorious.org/bar/bar> and https://bzr.sourceforge.net/bzrroot/bar ">>) @@
  ("b.md" :> <<"Savannah https://git.savannah.gnu.org/git/fanwor.git or",
               "https://git.tuxfamily.org/fanwor/fanwor.git or https://git.code.sf.net/p/b/code ">>) @@
  ("megaglest.md" :> <<"Forum https://www.megamek.org/forum and",
                       "cvs http://cvs.savannah.gnu.org:/sources/megaglest ">>)

EntryText(entry) ==
  LET fields == Filter(LAMBDA f : Has(entry, f), url_fields)
  IN <<"# " \o entry["Title"], "">>
       \o [k \in DOMAIN fields |->
             "- " \o fields[k] \o ": " \o join(", ", texts(entry[fields[k]]))]
       \o EntryNotes[entry["File"]]

ignored_urls ==
  <<"https://git.tukaani.org/xz.git", "https://git.code.sf.net/",
    "http://hg.hedgewars.org/hedgewars/", "https://git.xiph.org/vorbis.git",
    "http://svn.uktrainsim.com/svn/openrails", "https://www.srb2.org/", "http://wiki.srb2.org/">>

redirect_okay ==
  {"https://octaforge.org/", "https://svn.openttd.org/", "https://godotengine.org/download"}

\* any((url.startswith(x) for x in prefixes))
StartsWithAny(url, prefixes) == \E k \in DOMAIN prefixes : startswith(url, prefixes[k])

\* the url without its first n characters, url[n:]
From(url, n) == SubSeq(url, n + 1, Len(url))

\* the url without its last four characters, url[:-4]
WithoutSuffix(url) == SubSeq(url, 1, Len(url) - 4)

GitExceptions == <<"https://repo.or.cz", "https://git.tuxfamily.org/fanwor/fanwor">>

\* generally ".git" at the end is not working well, except sometimes
StripGit(url) ==
  IF endswith(url, ".git") /\ ~StartsWithAny(url, GitExceptions) THEN WithoutSuffix(url) ELSE url

\* the host rules applied to a url one after the other
RewriteUrl(url) ==
  LET slashed == IF StartsWithAny(url, <<"https://anongit.freedesktop.org/git",
                                         "https://git.savannah.gnu.org/git/",
                                         "https://git.savannah.nongnu.org/git/",
                                         "https://git.artsoft.org/">>)
                 THEN url \o "/" ELSE url
      bitbucket == IF startswith(slashed, "https://bitbucket.org/") /\ endswith(slashed, ".git")
                   THEN WithoutSuffix(slashed) \o "/commits/" ELSE slashed
      svn == IF startswith(bitbucket, "https://svn.code.sf.net/p/")
             THEN "http" \o From(bitbucket, 5) \o "/" ELSE bitbucket
      nongnu == IF startswith(svn, "http://cvs.savannah.nongnu.org:/sources/")
                THEN "http://cvs.savannah.nongnu.org/viewvc/" \o From(svn, 40) \o "/" ELSE svn
      gnu == IF startswith(nongnu, "http://cvs.savannah.gnu.org:/sources/")
             THEN "http://cvs.savannah.gnu.org/viewvc/" \o From(nongnu, 37) \o "/" ELSE nongnu
  IN StripGit(gnu)

\* the urls of the matches that are neither ignored nor on bzr.sourceforge
CheckedMatches(matches) ==
  Filter(LAMBDA url : /\ ~StartsWithAny(url, ignored_urls)
                      /\ find(url, "bzr.sourceforge.net/bzrroot/", 1) = 0,
         matches)

\* the urls an entry file adds to the dictionary, in the order they are found
EntryLinks(entry) ==
  LET matches == CheckedMatches(findall(EntryText(entry), TRUE))
  IN [k \in DOMAIN matches |-> RewriteUrl(matches[k])]

\* EntryLinks of the entry files of the pool, computed once
PoolLinks == [entry \in EntryPool |-> EntryLinks(entry)]

LinksOf(entry) == IF entry \in EntryPool THEN PoolLinks[entry] ELSE EntryLinks(entry)

\* the urls dictionary: the rewritten urls in the order they are found first, each with
\* the set of the entries it is found in
FoundLinks(es) ==
  LET Group(found, keys) ==
        [k \in DOMAIN keys |->
           [url |-> keys[k],
            names |-> {found[j].name : j \in {n \in DOMAIN found : found[n].url = keys[k]}}]]
  IN CHOOSE links \in
       {Group(found, Unique([k \in DOMAIN found |-> found[k].url])) :
          found \in {Flatten([i \in DOMAIN es |->
                       [k \in DOMAIN LinksOf(es[i]) |->
                          [url |-> LinksOf(es[i])[k], name |-> es[i]["File"]]]])}} : TRUE

\* what the servers answer: eight states of the web, in each of which a url gets one of
\* the answers below, and every url gets every answer in some state
Webs == 0..7

\* the answer to requests.head(url): a status, the url answered from and whether there
\* were redirects, or the exception raised
HeadAnswers(url) ==
  << [raises |-> "", status |-> 200, history |-> FALSE, url |-> url],
     [raises |-> "", status |-> 404, history |-> FALSE, url |-> url],
     [raises |-> "", status |-> 405, history |-> FALSE, url |-> url],
     [raises |-> "", status |-> 200, history |-> TRUE, url |-> url \o "/"],
     [raises |-> "SSLError", status |-> 0, history |-> FALSE, url |-> url],
     [raises |-> "ConnectionError", status |-> 0, history |-> FALSE, url |-> url],
     [raises |-> "", status |-> 200, history |-> TRUE, url |-> "https" \o From(url, 4)],
     [raises |-> "", status |-> 200, history |-> TRUE, url |-> "https://example.net/moved"] >>

\* the answer to requests.get(url)
GetAnswers(url) ==
  << [raises |-> "", status |-> 200, history |-> FALSE, url |-> url],
     [raises |-> "", status |-> 404, history |-> FALSE, url |-> url],
     [raises |-> "ReadTimeout", status |-> 0, history |-> FALSE, url |-> url],
     [raises |-> "", status |-> 200, history |-> TRUE, url |-> url \o "/"] >>

head(web, url) == HeadAnswers(url)[((Len(url) + web) % 8) + 1]
get(web, url) == GetAnswers(url)[((Len(url) + web) % 4) + 1]

\* some have an expired certificate but otherwise still work
Unverified ==
  <<"https://perso.b2b2c.ca/~sarrazip/dev/", "https://dreerally.com/", "https://henlin.net/",
    "https://www.megamek.org/", "https://pixeldoctrine.com/", "https://gitorious.org/",
    "https://www.opmon-game.ga/">>

\* the requests sent for a url, each with its answer: HEAD, and GET when HEAD answers 405
Requests(web, url) ==
  LET verify == ~StartsWithAny(url, Unverified)
      r == head(web, url)
  IN <<[method |-> "HEAD", url |-> url, verify |-> verify, answer |-> r]>>
       \o (IF r.raises = "" /\ r.status = 405
           THEN <<[method |-> "GET", url |-> url, verify |-> verify, answer |-> get(web, url)]>>
           ELSE <<>>)

\* the last answer for a url
Answer(web, url) ==
  IF head(web, url).raises = "" /\ head(web, url).status = 405
  THEN get(web, url) ELSE head(web, url)

\* an SSLError on these is not printed
SilentSSL == <<"https://gitorious.org/", "https://www.freedroid.org/download/">>

\* LinkLines without the lines for the exceptions
LinkLinesWithoutFaults(web, url, names) ==
  LET r == Answer(web, url)
  IN IF r.raises # "" THEN <<>>
     ELSE IF r.status # 200 THEN <<names \o ": " \o url \o " - " \o str(r.status)>> ELSE <<>>

\* the lines printed for a url, names being the text printed for the entries
LinkLines(web, url, names) ==
  LET r == Answer(web, url)
  IN IF r.raises # ""
     THEN IF r.raises = "SSLError" /\ StartsWithAny(url, SilentSSL) THEN <<>>
          ELSE <<names \o ": " \o url \o " - exception " \o r.raises>>
     ELSE (IF r.status # 200 THEN <<names \o ": " \o url \o " - " \o str(r.status)>> ELSE <<>>)
            \o (IF r.history /\ url \notin redirect_okay
                THEN <<names \o ": " \o url \o " -> " \o r.url \o " - redirect "
                         \o (IF r.url = url \o "/" THEN "\"/\" at end "
                             ELSE IF r.url = "https" \o From(url, 4) THEN "\"https\" at start"
                             ELSE "")>>
                ELSE <<>>)

\* the text printed for the entries of a url: the name of the only one, or the list of
\* the names in the order of list(names), which Python does not fix
NamesTexts(names) ==
  IF Cardinality(names) = 1 THEN names
  ELSE {"['" \o join("', '", order) \o "']" : order \in Orders(names)}

\* the lines the scan can print for the links
RECURSIVE ScanLines(_, _)
ScanLines(web, links) ==
  IF links = <<>> THEN {<<>>}
  ELSE {first \o rest :
          first \in {LinkLines(web, Head(links).url, names) :
                       names \in NamesTexts(Head(links).names)},
          rest \in ScanLines(web, Tail(links))}

\* check_external_links reads the entry files, not self.entries
check_external_links ==
  \E web \in Webs, links \in {FoundLinks(entry_files)} :
       /\ \E lines \in ScanLines(web, links) :
            console' = <<"found " \o str(Len(links)) \o " unique links",
                         "start checking external links (can take a while)">> \o lines
       /\ network' = Flatten([k \in DOMAIN links |-> Requests(web, links[k].url)])
       /\ last_op' = "check_external_links"
       /\ outcome' = "returned"
       /\ UNCHANGED <<entries, files>>

(***************************************************************************)
(* update_statistics                                                       *)
(***************************************************************************)

InactivePrefix == "inactive since "

\* osg.is_inactive(entry): a State value tells since when
is_inactive(entry) ==
  \E i \in DOMAIN entry["State"] : startswith(entry["State"][i].value, InactivePrefix)

\* int(text) for a text of digits
RECURSIVE int(_)
int(text) ==
  IF text = "" THEN 0
  ELSE 10 * int(SubSeq(text, 1, Len(text) - 1))
         + (CHOOSE d \in 0..9 : Char(Digits, d + 1) = Char(text, Len(text)))

\* osg.extract_inactive_year(entry)
extract_inactive_year(entry) ==
  LET i == CHOOSE k \in DOMAIN entry["State"] : startswith(entry["State"][k].value, InactivePrefix)
      text == entry["State"][i].value
  IN int(SubSeq(text, Len(InactivePrefix) + 1, Len(text)))

Titles(es) == [i \in DOMAIN es |-> es[i]["Title"]]

\* sum(1 for x in self.entries if state in x['State'])
NumberInState(es, state) == Len(Filter(LAMBDA x : In(state, x["State"]), es))

TitleYearLess(a, b) == StrLess(casefold(a[1]), casefold(b[1]))
YearGreater(a, b) == a[2] > b[2]

\* the inactive entries with their year, by year (latest first), then by title
entries_inactive(es) ==
  LET inactive == Filter(is_inactive, es)
      pairs == [i \in DOMAIN inactive |->
                  <<inactive[i]["Title"], extract_inactive_year(inactive[i])>>]
  IN StableSort(YearGreater, StableSort(TitleYearLess, pairs))

\* Frequency with the occurrences counted without regard to case
FrequencyIgnoringCase(values, v) ==
  [num |-> count([i \in DOMAIN values |-> casefold(values[i])], casefold(v)),
   den |-> Len(values)]

\* a frequency: count / len, kept as the two numbers
Frequency(values, v) == [num |-> count(values, v), den |-> Len(values)]

\* a.num / a.den > b.num / b.den
FrequencyGreater(a, b) == a.num * b.den > b.num * a.den

\* the rows of a frequency table for the unique values in the given order
FrequencyTable(values, order) ==
  [i \in DOMAIN order |-> [name |-> order[i], frequency |-> Frequency(values, order[i])]]

RowNameLess(a, b) == StrLess(casefold(a.name), casefold(b.name))
RowFrequencyGreater(a, b) == FrequencyGreater(a.frequency, b.frequency)

\* SortTable without the second sort
SortTableByNameOnly(rows) == StableSort(RowNameLess, rows)

\* first sort by name, then by occurrence (highest occurrence first)
SortTable(rows) == StableSort(RowFrequencyGreater, StableSort(RowNameLess, rows))

\* the tables Python can write for the values of a field: set(values) is listed in an
\* order Python does not fix, and the two stable sorts keep that order among the values
\* with the same frequency and the same casefolded name
FrequencyTables(values) ==
  LET sorted == SortTable(FrequencyTable(values, Unique(values)))
      orders == Arrange(LAMBDA v : <<count(values, v), casefold(v)>>,
                        [i \in DOMAIN sorted |-> sorted[i].name], Range(values))
  IN {FrequencyTable(values, order) : order \in orders}

\* the titles sorted with key=str.casefold
SortTitles(titles) == StableSort(CasefoldLess, titles)

without_download_or_play(es) ==
  SortTitles(Titles(Filter(LAMBDA x : ~Has(x, "Download") /\ ~Has(x, "Play"), es)))

popular_code_repositories ==
  <<"github.com", "gitlab.com", "bitbucket.org", "code.sf.net", "code.launchpad.net">>

IsPopular(entry) ==
  \E i \in DOMAIN entry["Code repository"] : \E k \in DOMAIN popular_code_repositories :
    find(entry["Code repository"][i].value, popular_code_repositories[k], 1) > 0

\* the titles of the entries with no code repository on a popular site
not_popular(es) == SortTitles(Titles(Filter(LAMBDA x : ~IsPopular(x), es)))

\* the Build system values of the Building sections
build_systems(es) ==
  Flatten([i \in DOMAIN es |-> texts(Get(es[i]["Building"], "Build system"))])

IsCOrCpp(entry) == In("C", entry["Code language"]) \/ In("C++", entry["Code language"])

\* the C and C++ entries for which the field Build system is not in the entry
c_cpp_project_without_build_system(es) ==
  SortTitles(Titles(Filter(LAMBDA x : ~Has(x, "Build system") /\ IsCOrCpp(x), es)))

\* the loop "for entry in entries" runs over the titles left in entries by the code
\* repository section; field in entry is then a substring test on a title and
\* entry[field] on a title raises TypeError
NotCMakeRaises(es) ==
  \E i \in DOMAIN not_popular(es) : find(not_popular(es)[i], "Build system", 1) > 0

c_cpp_project_not_cmake(es) == <<>>

\* x / number_entries * 100, kept as the two numbers
rel(x, number_entries) == [num |-> x, den |-> number_entries]

\* the statistics page but for the time of the run, section by section
Statistics(es, languages, licenses, keywords, dependencies, systems, platforms) ==
  [number_entries |-> Len(es),
   mature |-> rel(NumberInState(es, "mature"), Len(es)),
   beta |-> rel(NumberInState(es, "beta"), Len(es)),
   inactive |-> rel(Len(Filter(is_inactive, es)), Len(es)),
   entries_inactive |-> entries_inactive(es),
   languages |-> languages,
   licenses |-> licenses,
   keywords |-> keywords,
   without_download_or_play |-> without_download_or_play(es),
   not_popular |-> not_popular(es),
   with_code_dependency |->
     rel(Len(Filter(LAMBDA x : Has(x, "Code dependencies"), es)), Len(es)),
   code_dependencies |-> dependencies,
   build_systems_available |-> rel(Len(build_systems(es)), Len(es)),
   number_build_systems |-> Len(build_systems(es)),
   build_systems |-> systems,
   c_cpp_project_without_build_system |-> c_cpp_project_without_build_system(es),
   c_cpp_project_not_cmake |-> c_cpp_project_not_cmake(es),
   platform_available |-> rel(Len(AllValues(es, "Platform")), Len(es)),
   platforms |-> platforms]

\* update_statistics without the test "if not self.entries" for a store that was read
update_statistics_without_guard ==
  \/ entries = None /\ NotLoaded("update_statistics")
  \/ /\ entries # None
     /\ IF NotCMakeRaises(entries.list)
        THEN /\ Ends("update_statistics", <<>>, "TypeError: string indices must be integers")
             /\ UNCHANGED statistics_file
        ELSE \E languages \in FrequencyTables(AllValues(entries.list, "Code language")),
                licenses \in FrequencyTables(AllValues(entries.list, "Code license")),
                keywords \in FrequencyTables(Collapse(AllValues(entries.list, "Keywords"))),
                dependencies \in FrequencyTables(AllValues(entries.list, "Code dependencies")),
                systems \in FrequencyTables(build_systems(entries.list)),
                platforms \in FrequencyTables(AllValues(entries.list, "Platform")) :
               /\ statistics_file' = <<Statistics(entries.list, languages, licenses, keywords,
                                                  dependencies, systems, platforms)>>
               /\ Ends("update_statistics", <<"statistics updated">>, "returned")
     /\ UNCHANGED <<entries, entry_files, tocs, readme, backlog_file, rejected_file, json_files>>

update_statistics ==
  \/ NotLoaded("update_statistics")
  \/ /\ Loaded
     /\ IF NotCMakeRaises(entries.list)
        THEN /\ Ends("update_statistics", <<>>, "TypeError: string indices must be integers")
             /\ UNCHANGED statistics_file
        ELSE \E languages \in FrequencyTables(AllValues(entries.list, "Code language")),
                licenses \in FrequencyTables(AllValues(entries.list, "Code license")),
                keywords \in FrequencyTables(Collapse(AllValues(entries.list, "Keywords"))),
                dependencies \in FrequencyTables(AllValues(entries.list, "Code dependencies")),
                systems \in FrequencyTables(build_systems(entries.list)),
                platforms \in FrequencyTables(AllValues(entries.list, "Platform")) :
               /\ statistics_file' = <<Statistics(entries.list, languages, licenses, keywords,
                                                  dependencies, systems, platforms)>>
               /\ Ends("update_statistics", <<"statistics updated">>, "returned")
     /\ UNCHANGED <<entries, entry_files, tocs, readme, backlog_file, rejected_file, json_files>>

(***************************************************************************)
(* update_html, update_repos, collect_git_repos, special_ops               *)
(***************************************************************************)

EntriesUrl == "https://github.com/Trilarion/opensourcegames/blob/master/entries/"

\* the row of an entry in the table of data.json; the entries of the store have no Note
HtmlRow(info) ==
  <<info["Title"] \o " (<a href=\"" \o info["Home"][1].value \o "\">home</a>, <a href=\""
      \o EntriesUrl \o info["File"] \o "\">entry</a>)",
    "",
    IF Has(info, "Download") /\ info["Download"] # <<>>
    THEN "<a href=\"" \o info["Download"][1].value \o "\">Link</a>" ELSE "",
    info["State"][1].value \o " / "
      \o (IF is_inactive(info) THEN InactivePrefix \o str(extract_inactive_year(info))
          ELSE "active"),
    join(", ", texts(info["Keywords"])),
    join(" - ",
         (IF info["Code repository"] # <<>>
          THEN <<"<a href=\"" \o info["Code repository"][1].value \o "\">Source</a>">>
          ELSE <<>>)
           \o <<join(", ", texts(info["Code language"])),
                join(", ", texts(info["Code license"]))>>)>>

HtmlRowLess(a, b) == StrLess(casefold(a[1]), casefold(b[1]))

\* update_html with the sort by game name done on self.entries
update_html_sorting_store ==
  \/ NotLoaded("update_html")
  \/ /\ Loaded
     /\ entries' = List(StableSort(LAMBDA a, b : StrLess(casefold(a["Title"]), casefold(b["Title"])),
                                   entries.list))
     /\ json_files' = WriteFile(json_files, "data.json",
          [headings |-> <<"Game", "Description", "Download", "State", "Keywords", "Source">>,
           data |-> StableSort(HtmlRowLess,
                               [i \in DOMAIN entries.list |-> HtmlRow(entries.list[i])])])
     /\ Ends("update_html", <<"HTML updated">>, "returned")
     /\ UNCHANGED <<entry_files, tocs, readme, statistics_file, backlog_file, rejected_file>>

update_html ==
  \/ NotLoaded("update_html")
  \/ /\ Loaded
     /\ json_files' = WriteFile(json_files, "data.json",
          [headings |-> <<"Game", "Description", "Download", "State", "Keywords", "Source">>,
           data |-> StableSort(HtmlRowLess,
                               [i \in DOMAIN entries.list |-> HtmlRow(entries.list[i])])])
     /\ Ends("update_html", <<"HTML updated">>, "returned")
     /\ UNCHANGED <<entries, entry_files, tocs, readme, statistics_file, backlog_file,
                    rejected_file>>

\* osg.git_repo, osg.svn_repo, osg.hg_repo: the url when the repository is of that
\* version control system
git_repo(repo) == endswith(repo, ".git") \/ startswith(repo, "git://")
svn_repo(repo) == startswith(repo, "svn://") \/ startswith(repo, "https://svn.")
hg_repo(repo) == find(repo, "/hg/", 1) > 0

\* repo.split(' ')[0].strip()
RepoUrl(repo) == strip(split(repo, " ")[1])

\* keep the first and all others containing @add
PrimaryRepos(entry) ==
  LET repos == texts(entry["Code repository"])
  IN IF repos = <<>> THEN <<>>
     ELSE <<repos[1]>> \o Filter(LAMBDA x : find(x, "@add", 1) > 0, Tail(repos))

AllPrimaryRepos(es) ==
  Flatten([i \in DOMAIN es |->
    [k \in DOMAIN PrimaryRepos(es[i]) |->
       [entry |-> es[i], repo |-> RepoUrl(PrimaryRepos(es[i])[k])]]])

\* sorted(set(v))
SortedUrls(urls) == StableSort(StrLess, Unique(urls))

Domains ==
  <<"repo.or.cz", "anongit.kde.org", "bitbucket.org", "git.code.sf.net", "git.savannah",
    "git.tuxfamily", "github.com", "gitlab.com", "gitlab.com/osgames", "gitlab.gnome.org">>

update_repos ==
  \/ NotLoaded("update_repos")
  \/ /\ Loaded
     /\ LET repos == AllPrimaryRepos(entries.list)
            urls(is(_)) == LET of == Filter(LAMBDA r : is(r.repo), repos)
                           IN SortedUrls([k \in DOMAIN of |-> of[k].repo])
            git == urls(git_repo)
            svn == urls(LAMBDA r : ~git_repo(r) /\ svn_repo(r))
            hg == urls(LAMBDA r : ~git_repo(r) /\ ~svn_repo(r) /\ hg_repo(r))
            unconsumed == Filter(LAMBDA r : ~git_repo(r.repo) /\ ~svn_repo(r.repo)
                                              /\ ~hg_repo(r.repo), repos)
        IN /\ json_files' = WriteFile(json_files, "archives.json",
                                      [git |-> git, svn |-> svn, hg |-> hg])
           /\ Ends("update_repos",
                   [k \in DOMAIN unconsumed |->
                      "Entry \"" \o unconsumed[k].entry["File"] \o "\" unconsumed repo: "
                        \o unconsumed[k].repo]
                     \o <<str(Len(git)) \o " Git repositories">>
                     \o [k \in DOMAIN Domains |->
                           str(Len(Filter(LAMBDA x : find(x, Domains[k], 1) > 0, git)))
                             \o " on " \o Domains[k]]
                     \o <<"Repositories updated">>,
                   "returned")
     /\ UNCHANGED <<entries, entry_files, tocs, readme, statistics_file, backlog_file,
                    rejected_file>>

\* collect_git_repos has no test of self.entries: iterating None raises
collect_git_repos ==
  /\ IF entries = None
     THEN /\ Ends("collect_git_repos", <<>>, "TypeError: 'NoneType' object is not iterable")
          /\ UNCHANGED json_files
     ELSE LET repos == Flatten([i \in DOMAIN entries.list |->
                         LET values == texts(entries.list[i]["Code repository"])
                         IN [k \in DOMAIN values |-> RepoUrl(values[k])]])
          IN \E git_repos \in SortedSet(Filter(git_repo, repos)) :
               /\ json_files' = WriteFile(json_files, "git_repositories.json", git_repos)
               /\ Ends("collect_git_repos", <<>>, "returned")
  /\ UNCHANGED <<entries, entry_files, tocs, readme, statistics_file, backlog_file,
                 rejected_file>>

\* del entry['Download'] when it only holds @see-home without a comment
WithoutDefaultDownload(entry) ==
  IF /\ Has(entry, "Download")
     /\ Len(entry["Download"]) = 1
     /\ entry["Download"][1].value = "@see-home"
     /\ entry["Download"][1].comment = ""
  THEN [f \in DOMAIN entry \ {"Download"} |-> entry[f]]
  ELSE entry

special_ops ==
  \/ NotLoaded("special_ops")
  \/ /\ Loaded
     /\ entries' = List([i \in DOMAIN entries.list |-> WithoutDefaultDownload(entries.list[i])])
     /\ Ends("special_ops", <<"special ops finished">>, "returned")
     /\ UNCHANGED files

(***************************************************************************)
(* The files the operations start from                                     *)
(***************************************************************************)

\* the number of start-marker/end-marker regions of a document, read from the top
RECURSIVE CountRegions(_)
CountRegions(lines) ==
  LET starts == {i \in DOMAIN lines : IsStartLine(lines[i])}
      first == CHOOSE i \in starts : \A k \in starts : i <= k
      ends == {j \in DOMAIN lines : j >= first /\ IsEndLine(lines[j])}
      close == CHOOSE j \in ends : \A k \in ends : j <= k
  IN IF starts = {} THEN 0
     ELSE IF ends = {} THEN 0
     ELSE 1 + CountRegions(SubSeq(lines, close + 1, Len(lines)))

ReadmeOneRegion ==
  <<"# Open Source Games", "", StartMarker, "**[Games](entries/tocs/_games.md#Games)** (7)",
    EndMarker, "", "A collection of open source games.">>

\* readmes with one region, with nothing but the region, with no region, with the end
\* marker before the start marker only, with two regions, and with lines that contain a
\* marker without being one
Readmes ==
  { ReadmeOneRegion,
    <<StartMarker, "", EndMarker>>,
    <<"# Open Source Games", "A collection of open source games.">>,
    <<"# Open Source Games", EndMarker, "no end after this start", StartMarker, "old">>,
    <<"intro", StartMarker, "old", EndMarker, "between", StartMarker, "older", EndMarker,
      "outro">>,
    <<"[comment]: # (the end of autogenerated content)", "[comment]: # (started)", "old",
      "the [comment]: # (end of autogenerated content)", "tail", EndMarker>> }

TocDirs ==
  { EmptyDir,
    [f \in {"_games.md", "_stale.md"} |->
       <<"[comment]: # (autogenerated content, do not edit)", "# Old", "", "">>] }

NoJson == [f \in {} |-> <<>>]

BacklogExample == <<"http://a.com", "http://a.com/", "http://b.com">>

Backlogs ==
  { BacklogExample,
    <<"http://c.com", "http://b.com/", "http://R.com", "http://r.com/", "http://C.com",
      "http://c.com", "https://web.archive.org/web/2018/http://b.com", "">> }

RejectedFiles ==
  { <<"- R (http://r.com/, https://web.archive.org/web/2015/http://c.com): not open source",
      "- no link (see the list)",
      "- R (http://r.com/, https://web.archive.org/web/2015/http://c.com): not open source">>,
    <<"- a (http://a.com): no game", "- A (http://a.com): no game">>,
    <<"- Old (https://web.archive.org/web/2012/www.old.org): offline">> }

\* the state after construction with the given files
InitWith(stores, dirs, readmes, backlogs, rejecteds) ==
  /\ entries = None
  /\ entry_files \in stores
  /\ tocs \in dirs
  /\ readme \in readmes
  /\ statistics_file = <<>>
  /\ backlog_file \in backlogs
  /\ rejected_file \in rejecteds
  /\ json_files = NoJson
  /\ console = <<>>
  /\ network = <<>>
  /\ last_op = "init"
  /\ outcome = "returned"


InitToc == InitWith(Stores(MaxEntries), TocDirs, Readmes, {<<"">>}, {<<"">>})

NextToc == read_entries \/ update_readme_tocs

\* the readme and TOC generator on every store and readme
SpecToc == InitToc /\ [][NextToc]_vars

InitCheck == InitWith(Stores(MaxEntries), {EmptyDir}, {ReadmeOneRegion}, {<<"">>}, {<<"">>})

NextCheck == read_entries \/ check_inconsistencies

\* the consistency checker on every store
SpecCheck == InitCheck /\ [][NextCheck]_vars

InitLists == InitWith(Stores(MaxEntries), {EmptyDir}, {ReadmeOneRegion}, Backlogs, RejectedFiles)

NextLists == read_entries \/ clean_backlog \/ clean_rejected

\* the backlog and rejected list maintainer on every store and list
SpecLists == InitLists /\ [][NextLists]_vars

InitLinks == InitWith(Stores(MaxEntries), {EmptyDir}, {ReadmeOneRegion}, {<<"">>}, {<<"">>})

NextLinks == read_entries \/ check_external_links

\* the link auditor on every store and in every state of the web
SpecLinks == InitLinks /\ [][NextLinks]_vars

\* the stores that hold none but three of the entry files, in every order
GeneratorStores ==
  {s \in Stores(MaxEntries) : \A i \in DOMAIN s : s[i] \in {EntryFoo, EntryFOO, EntryMegaGlest}}

InitGenerators ==
  InitWith(GeneratorStores, {EmptyDir}, {ReadmeOneRegion}, {<<"">>}, {<<"">>})

NextGenerators ==
  \/ read_entries
  \/ check_inconsistencies
  \/ update_readme_tocs
  \/ update_statistics
  \/ update_html
  \/ update_repos

\* the consistency checker and the generators on every store
SpecGenerators == InitGenerators /\ [][NextGenerators]_vars

InitStatistics == InitWith(Stores(MaxEntries), {EmptyDir}, {ReadmeOneRegion}, {<<"">>}, {<<"">>})

NextStatistics == read_entries \/ update_statistics

\* the statistics generator on every store
SpecStatistics == InitStatistics /\ [][NextStatistics]_vars

\* the stores of GeneratorStores with at most one entry file
Init == InitWith(GeneratorStores \cap Stores(1), TocDirs \ {EmptyDir}, {ReadmeOneRegion},
                 {BacklogExample}, {<<"- A (http://a.com): no game">>})

Next ==
  \/ read_entries
  \/ write_entries
  \/ check_inconsistencies
  \/ clean_rejected
  \/ check_external_links
  \/ clean_backlog
  \/ update_readme_tocs
  \/ update_statistics
  \/ update_html
  \/ update_repos
  \/ collect_git_repos
  \/ special_ops

\* the maintainer: every operation of the launcher that works on the loaded store
Spec == Init /\ [][Next]_vars

(***************************************************************************)
(* Properties of update_readme_tocs                                        *)
(***************************************************************************)

Updated == last_op = "update_readme_tocs" /\ outcome = "returned"

PrimaryFiles == {"_games.md", "_tools.md", "_frameworks.md", "_libraries.md"}

\* the rows of a TOC document: its lines after the three header lines
Bullets(doc) == SubSeq(doc, 4, Len(doc))

\* the primary documents that list the entry
BucketsOf(entry) == {f \in PrimaryFiles \cap DOMAIN tocs : TocRow(entry) \in Range(Bullets(tocs[f]))}

\* the first line of the autogenerated region for the four counts
CountsLine(games, tools, frameworks, libraries) ==
  "**[Games](entries/tocs/_games.md#Games)** (" \o str(games)
    \o ") - **[Tools](entries/tocs/_tools.md#Tools)** (" \o str(tools)
    \o ") - **[Frameworks](entries/tocs/_frameworks.md#Frameworks)** (" \o str(frameworks)
    \o ") - **[Libraries](entries/tocs/_libraries.md#Libraries)** (" \o str(libraries) \o ")"

RegionOf(lines) == FindRegion(lines)[1].region

\* C1: after update_readme_tocs every entry of the store is listed in exactly one of the
\* four primary documents Games, Tools, Frameworks, Libraries, and the four counts of
\* the summary add up to the number of entries.
C1_PrimaryBucketsPartition ==
  Updated =>
    /\ \A i \in DOMAIN entries.list : Cardinality(BucketsOf(entries.list[i])) = 1
    /\ \E g, t, f, l \in 0..Len(entries.list) :
         /\ g + t + f + l = Len(entries.list)
         /\ RegionOf(readme)[2] = CountsLine(g, t, f, l)

\* C2: update_readme_tocs with a loaded store on a readme with no region, or with two
\* or more regions, raises the invalid structure error and leaves the readme as it is.
C2_RaisesUnlessOneRegion ==
  [][(last_op' = "update_readme_tocs" /\ entries # None /\ CountRegions(readme) # 1)
       => (outcome' = "RuntimeError: readme file has invalid structure" /\ readme' = readme)]_vars

\* the lines before the start-marker line and after the end-marker line of a document
\* with one region
TextBefore(lines) ==
  SubSeq(lines, 1, (CHOOSE i \in DOMAIN lines :
                      IsStartLine(lines[i]) /\ \A k \in 1..(i - 1) : ~IsStartLine(lines[k])) - 1)

TextAfter(lines) ==
  LET first == Len(TextBefore(lines)) + 1
      close == CHOOSE j \in first..Len(lines) :
                 IsEndLine(lines[j]) /\ \A k \in first..(j - 1) : ~IsEndLine(lines[k])
  IN SubSeq(lines, close + 1, Len(lines))

\* C3: update_readme_tocs on a readme with exactly one region leaves the text before the
\* start-marker line and the text after the end-marker line as they were, and when it
\* returns it has written the new region between them.
C3_OutsideRegionPreserved ==
  [][(last_op' = "update_readme_tocs" /\ CountRegions(readme) = 1)
       => /\ CountRegions(readme') = 1
          /\ TextBefore(readme') = TextBefore(readme)
          /\ TextAfter(readme') = TextAfter(readme)
          /\ outcome' = "returned" =>
               readme' = TextBefore(readme) \o <<StartMarker>> \o TocsText(entries.list)
                           \o <<EndMarker>> \o TextAfter(readme)]_vars

C3_Witness ==
  /\ Updated
  /\ CountRegions(readme) = 1
  /\ TextBefore(readme) = <<"# Open Source Games", "">>
  /\ TextAfter(readme) = <<"", "A collection of open source games.">>
  /\ RegionOf(readme)[2] = CountsLine(1, 1, 1, 0)

\* C4: a second update_readme_tocs right after the first, on the same store, leaves the
\* TOC documents and the readme as the first run left them.
C4_RegenerationIdempotent ==
  [][(last_op = "update_readme_tocs" /\ last_op' = "update_readme_tocs")
       => (tocs' = tocs /\ readme' = readme /\ outcome' = outcome)]_vars

C4_Witness ==
  /\ Updated
  /\ Len(entries.list) = MaxEntries
  /\ Cardinality(DOMAIN tocs) = Len(recommended_keywords) + Len(valid_platforms) + 4
  /\ \E f \in DOMAIN tocs : Len(Bullets(tocs[f])) > 1

(***************************************************************************)
(* Properties of the operations that need the loaded store                 *)
(***************************************************************************)

StoreOperations ==
  {"write_entries", "check_inconsistencies", "clean_backlog", "update_readme_tocs",
   "update_statistics", "update_html", "update_repos", "collect_git_repos", "special_ops"}

\* C5: an operation that needs the entries, invoked while self.entries is None, reports
\* "entries not yet loaded" and returns, and no file and not the store has changed.
C5_NotLoadedNoSideEffect ==
  [][(entries = None /\ last_op' \in StoreOperations)
       => /\ console' = <<"entries not yet loaded">>
          /\ outcome' = "returned"
          /\ UNCHANGED <<entries, files>>]_vars

(***************************************************************************)
(* Properties of the TOC documents                                         *)
(***************************************************************************)

AllTocs(es) == PrimaryTocs(es) \o CategoryTocs(es) \o PlatformTocs(es)

\* the position of the bullet of an entry in a TOC document, 0 when it has none
BulletAt(doc, entry) ==
  IF TocRow(entry) \in Range(Bullets(doc))
  THEN CHOOSE i \in DOMAIN Bullets(doc) : Bullets(doc)[i] = TocRow(entry)
  ELSE 0

NumberOfBullets(doc) == Len(Filter(LAMBDA line : line # "", Bullets(doc)))

\* C6: every TOC document has one bullet per member entry, and of two members with
\* different casefolded titles the one with the smaller casefolded title comes first.
C6_BulletsInTitleOrder ==
  Updated =>
    \A k \in DOMAIN AllTocs(entries.list) :
      LET members == AllTocs(entries.list)[k].members
          doc == tocs[AllTocs(entries.list)[k].file]
      IN /\ NumberOfBullets(doc) = Len(members)
         /\ \A i, j \in DOMAIN members :
              /\ BulletAt(doc, members[i]) > 0
              /\ StrLess(casefold(members[i]["Title"]), casefold(members[j]["Title"]))
                   => BulletAt(doc, members[i]) < BulletAt(doc, members[j])

(***************************************************************************)
(* Properties of update_statistics                                         *)
(***************************************************************************)

StatisticsWritten == last_op = "update_statistics" /\ outcome = "returned" /\ Loaded

\* the frequency tables of the statistics page with the values of their fields
TablesAndValues ==
  LET page == statistics_file[1]
      es == entries.list
  IN << <<page.languages, AllValues(es, "Code language")>>,
        <<page.licenses, AllValues(es, "Code license")>>,
        <<page.keywords, Collapse(AllValues(es, "Keywords"))>>,
        <<page.code_dependencies, AllValues(es, "Code dependencies")>>,
        <<page.build_systems, build_systems(es)>>,
        <<page.platforms, AllValues(es, "Platform")>> >>

Names(table) == [i \in DOMAIN table |-> table[i].name]

\* C7: each frequency table lists every unique value of its field once, in
\* non-increasing order of the number of occurrences, values with the same number in
\* ascending order of the casefolded name.
C7_FrequencyTableOrder ==
  StatisticsWritten =>
    \A k \in DOMAIN TablesAndValues :
      LET table == TablesAndValues[k][1]
          values == TablesAndValues[k][2]
      IN /\ Range(Names(table)) = Range(values)
         /\ Len(table) = Cardinality(Range(values))
         /\ \A i \in 1..(Len(table) - 1) :
              /\ count(values, table[i].name) >= count(values, table[i + 1].name)
              /\ count(values, table[i].name) = count(values, table[i + 1].name)
                   => ~StrLess(casefold(table[i + 1].name), casefold(table[i].name))

\* a table with rows of different counts and rows of the same count and different names
C7_Witness ==
  /\ StatisticsWritten
  /\ \E i, j, k \in DOMAIN statistics_file[1].languages :
       LET table == statistics_file[1].languages
       IN /\ i < j /\ j < k
          /\ table[i].frequency.num > table[j].frequency.num
          /\ table[j].frequency.num = table[k].frequency.num
          /\ StrLess(casefold(table[j].name), casefold(table[k].name))

RECURSIVE SumOfCounts(_)
SumOfCounts(table) ==
  IF table = <<>> THEN 0 ELSE Head(table).frequency.num + SumOfCounts(Tail(table))

\* C8: for every field with at least one value the frequencies of its table sum to 100%:
\* the counts of the rows add up to the number of values of the field, which is the
\* denominator of every row.
C8_FrequenciesSumToAll ==
  StatisticsWritten =>
    \A k \in DOMAIN TablesAndValues :
      LET table == TablesAndValues[k][1]
          values == TablesAndValues[k][2]
      IN values # <<>> =>
           /\ SumOfCounts(table) = Len(values)
           /\ \A i \in DOMAIN table :
                table[i].frequency.den = Len(values) /\ table[i].frequency.num > 0

\* every field has values, some of them several times and some differing in case only
C8_Witness ==
  /\ StatisticsWritten
  /\ \A k \in DOMAIN TablesAndValues : TablesAndValues[k][2] # <<>>
  /\ \E k \in DOMAIN TablesAndValues :
       Len(TablesAndValues[k][1]) < Len(TablesAndValues[k][2])
  /\ \E a, b \in Range(AllValues(entries.list, "Code language")) :
       a # b /\ casefold(a) = casefold(b)
  /\ \E i \in DOMAIN entries.list :
       \E v \in Range(texts(entries.list[i]["Keywords"])) : startswith(v, "multiplayer ")

(***************************************************************************)
(* Properties of check_inconsistencies                                     *)
(***************************************************************************)

Checked == last_op = "check_inconsistencies" /\ outcome = "returned" /\ Loaded

\* the cross-field findings of the console that name the entry
FindingsFor(entry) ==
  Filter(LAMBDA line :
           startswith(line, "Entry \"" \o entry["File"] \o "\" has \"Play\" field but not "),
         console)

PlayWithoutWeb(entry) ==
  /\ "Play" \in DOMAIN entry
  /\ \/ "Platform" \notin DOMAIN entry
     \/ \A i \in DOMAIN entry["Platform"] : entry["Platform"][i].value # "Web"

\* C9: check_inconsistencies writes exactly one cross-field finding, naming the entry,
\* for each entry with Play and without the platform Web, and none for the others.
C9_OneFindingPerPlayWithoutWeb ==
  Checked =>
    /\ \A i \in DOMAIN entries.list :
         Len(FindingsFor(entries.list[i])) = (IF PlayWithoutWeb(entries.list[i]) THEN 1 ELSE 0)
    /\ Len(Filter(LAMBDA line : startswith(line, "Entry \""), console))
         = Cardinality({i \in DOMAIN entries.list : PlayWithoutWeb(entries.list[i])})

\* a store of three entries of which one has Play and no Platform: one finding, naming it
C9_Witness ==
  /\ Checked
  /\ Len(entries.list) = 3
  /\ Cardinality({i \in DOMAIN entries.list : "Play" \in DOMAIN entries.list[i]}) = 1
  /\ \E i \in DOMAIN entries.list :
       /\ "Play" \in DOMAIN entries.list[i] /\ "Platform" \notin DOMAIN entries.list[i]
       /\ Filter(LAMBDA line : startswith(line, "Entry \""), console)
            = <<"Entry \"" \o entries.list[i]["File"]
                  \o "\" has \"Play\" field but not \"Platform\" field, add it with \"Web\"">>

(***************************************************************************)
(* Properties of clean_backlog                                             *)
(***************************************************************************)

\* the stripped urls of the store, of the rejected list and of the originals of the
\* web-archive urls among them
KnownUrls ==
  LET known == Range(all_urls(entries.list)) \cup Range(rejected_urls(rejected_file))
      originals == {SubSeq(u, find(u, "http", 6), Len(u)) :
                      u \in {w \in known : IsArchived(w) /\ find(w, "http", 6) > 0}}
  IN {strip_url(u) : u \in known \cup originals}

\* C10: after clean_backlog on a loaded store no line of the backlog has the stripped
\* form of a url of the store, of the rejected list or of an archived original, and
\* every line of the backlog before with another stripped form is still there.
C10_BacklogCleaned ==
  [][(last_op' = "clean_backlog" /\ Loaded)
       => /\ \A i \in DOMAIN backlog_file' : strip_url(backlog_file'[i]) \notin KnownUrls
          /\ \A i \in DOMAIN backlog_file :
               strip_url(backlog_file[i]) \notin KnownUrls
                 => backlog_file[i] \in Range(backlog_file')]_vars

\* no line twice, and the lines in non-decreasing order of their casefolded text
DeduplicatedAndSorted(lines) ==
  /\ \A i, j \in DOMAIN lines : lines[i] = lines[j] => i = j
  /\ \A i \in 1..(Len(lines) - 1) : ~StrLess(casefold(lines[i + 1]), casefold(lines[i]))

BacklogCleaned == last_op = "clean_backlog" /\ outcome = "returned" /\ Loaded

\* C11: the list file written by clean_backlog and by clean_rejected has no line twice
\* and is in non-decreasing order of the casefolded lines, and the operation applied
\* again to the file it wrote leaves the file as it is.
C11_ListsSortedAndStable ==
  [][/\ last_op' = "clean_rejected" => DeduplicatedAndSorted(rejected_file')
     /\ BacklogCleaned' => DeduplicatedAndSorted(backlog_file')
     /\ (last_op = "clean_rejected" /\ last_op' = "clean_rejected")
          => rejected_file' = rejected_file
     /\ (BacklogCleaned /\ BacklogCleaned') => backlog_file' = backlog_file]_vars

(***************************************************************************)
(* Properties of check_external_links                                      *)
(***************************************************************************)

LinksChecked == last_op = "check_external_links"

\* C12: no url that check_external_links records and checks ends with ".git", unless it
\* starts with one of the two exception prefixes.
C12_NoGitSuffixChecked ==
  LinksChecked =>
    \A k \in DOMAIN network :
      endswith(network[k].url, ".git") => StartsWithAny(network[k].url, GitExceptions)

HeadRequests == Filter(LAMBDA r : r.method = "HEAD", network)

\* every unique url is asked once with HEAD, in the order of the dictionary, and with GET
\* right after a HEAD that answered 405 and never else; the operation returns
ScannedOnce ==
  /\ outcome = "returned"
  /\ [k \in DOMAIN HeadRequests |-> HeadRequests[k].url]
       = [k \in DOMAIN FoundLinks(entry_files) |-> FoundLinks(entry_files)[k].url]
  /\ \A k \in DOMAIN network :
       /\ network[k].method = "GET"
            => /\ k > 1 /\ network[k - 1].method = "HEAD" /\ network[k - 1].url = network[k].url
               /\ network[k - 1].answer.raises = "" /\ network[k - 1].answer.status = 405
       /\ (network[k].method = "HEAD" /\ network[k].answer.raises = ""
             /\ network[k].answer.status = 405)
            => /\ k < Len(network) /\ network[k + 1].method = "GET"
               /\ network[k + 1].url = network[k].url

\* the console has a line for the exception raised by request r
FaultLogged(r) ==
  \E i \in DOMAIN console :
    endswith(console[i], ": " \o r.url \o " - exception " \o r.answer.raises)

\* C13 as stated: each url is checked once (HEAD, GET only after 405), the scan visits
\* every url whatever is raised, and every exception is logged for its url with its type.
C13_EveryFaultLogged ==
  LinksChecked =>
    /\ ScannedOnce
    /\ \A k \in DOMAIN network : network[k].answer.raises # "" => FaultLogged(network[k])

IsSilent(r) == r.answer.raises = "SSLError" /\ StartsWithAny(r.url, SilentSSL)

\* C13 amended: each url is checked once (HEAD, GET only after 405), the scan visits every
\* url whatever is raised, and an exception is logged for its url with its type unless it
\* is an SSLError on https://gitorious.org/ or https://www.freedroid.org/download/, for
\* which nothing is printed.
C13_FaultsLoggedButSilentSSL ==
  LinksChecked =>
    /\ ScannedOnce
    /\ \A k \in DOMAIN network :
         network[k].answer.raises # "" => (FaultLogged(network[k]) <=> ~IsSilent(network[k]))

\* a scan in which a request raised and was logged and a later url was still asked, a
\* HEAD answered 405, and an SSLError on gitorious was passed over
C13_Witness ==
  /\ LinksChecked
  /\ \E k \in DOMAIN network :
       /\ network[k].answer.raises = "ConnectionError" /\ FaultLogged(network[k])
       /\ k < Len(network)
  /\ \E k \in DOMAIN network : network[k].method = "GET" /\ network[k].answer.raises # ""
  /\ \E k \in DOMAIN network : IsSilent(network[k])

(***************************************************************************)
(* Properties of the dependencies check_inconsistencies reports            *)
(***************************************************************************)

\* the lines of the console after "Code dependencies not included as entry", up to the
\* cross-field findings
ReportedDependencies ==
  LET header == CHOOSE i \in DOMAIN console : console[i] = "Code dependencies not included as entry"
  IN Filter(LAMBDA line : ~startswith(line, "Entry \""), SubSeq(console, header + 1, Len(console)))

\* the valid dependency names: the allow-list, the titles of the entries tagged
\* framework, library or game engine, and the aliases of such titles
ValidNames ==
  LET tagged == {entries.list[i]["Title"] :
                   i \in {k \in DOMAIN entries.list :
                            \E v \in Range(texts(entries.list[k]["Keywords"])) :
                              v \in {"framework", "library", "game engine"}}}
  IN Range(general_code_dependencies_without_entry) \cup tagged
       \cup UNION {Range(code_dependencies_aliases[t]) :
                     t \in tagged \cap DOMAIN code_dependencies_aliases}

\* C14: check_inconsistencies reports exactly the Code dependencies values that are no
\* valid dependency name, each once with the number of its references, in non-increasing
\* order of that number.
C14_ReportsTheInvalidDependencies ==
  Checked =>
    LET deps == AllValues(entries.list, "Code dependencies")
        invalid == Range(deps) \ ValidNames
        Line(v) == v \o " (" \o str(count(deps, v)) \o ")"
        Number(line) == count(deps, CHOOSE v \in invalid : Line(v) = line)
    IN /\ Range(ReportedDependencies) = {Line(v) : v \in invalid}
       /\ Len(ReportedDependencies) = Cardinality(invalid)
       /\ \A i \in 1..(Len(ReportedDependencies) - 1) :
            Number(ReportedDependencies[i]) >= Number(ReportedDependencies[i + 1])

(***************************************************************************)
(* Properties of the store                                                 *)
(***************************************************************************)

ReadOnlyOperations ==
  {"check_inconsistencies", "update_readme_tocs", "update_statistics", "update_html",
   "update_repos"}

\* C15: the consistency checker and the generators leave the store as it is: the same
\* entries in the same order, each with the same fields, values and comments.
C15_StoreReadOnly ==
  [][last_op' \in ReadOnlyOperations => entries' = entries]_vars

\* update_html has returned on a store of three entries that are not in the order of
\* their titles and of which one has a value with a comment: the store is as it was read
C15_Witness ==
  /\ last_op = "update_html" /\ outcome = "returned" /\ Loaded
  /\ entries = List(entry_files)
  /\ Len(entries.list) = 3
  /\ StrLess(casefold(entries.list[2]["Title"]), casefold(entries.list[1]["Title"]))
  /\ \E i \in DOMAIN entries.list :
       \E f \in DOMAIN entries.list[i] \ {"File", "Title", "Building"} :
         \E k \in DOMAIN entries.list[i][f] : entries.list[i][f][k].comment # ""
  /\ json_files # NoJson

\* the titles of the C and C++ entries whose Building section has no Build system value
WithoutBuildSystem(es) ==
  {es[i]["Title"] : i \in {k \in DOMAIN es :
     IsCOrCpp(es[k]) /\ Get(es[k]["Building"], "Build system") = <<>>}}

\* C16: the list of C and C++ projects without build system information of the
\* statistics page holds exactly the titles of the entries with the Code language C or
\* C++ whose Building section has no Build system value.
C16_WithoutBuildSystemListed ==
  StatisticsWritten =>
    Range(statistics_file[1].c_cpp_project_without_build_system)
      = WithoutBuildSystem(entries.list)

\* the titles of the C and C++ entries that have Build system values, none of them CMake
BuildSystemNotCMake(es) ==
  {es[i]["Title"] : i \in {k \in DOMAIN es :
     /\ IsCOrCpp(es[k])
     /\ Get(es[k]["Building"], "Build system") # <<>>
     /\ ~In("CMake", Get(es[k]["Building"], "Build system"))}}

\* C17: update_statistics on a loaded store returns, and the list of C and C++ projects
\* with a build system different from CMake holds exactly the titles of the entries with
\* the Code language C or C++ that have Build system values none of which is CMake.
C17_NotCMakeListed ==
  last_op = "update_statistics" /\ Loaded =>
    /\ outcome = "returned"
    /\ Range(statistics_file[1].c_cpp_project_not_cmake) = BuildSystemNotCMake(entries.list)

\* the number of the entries for which the values are not empty
NumberWith(es, ValuesOf(_)) == Cardinality({i \in DOMAIN es : ValuesOf(es[i]) # <<>>})

\* C18: the build system and the platform figures "information available for X% of all
\* projects" of the statistics page are the number of the entries that have Build system
\* values, or Platform values, over the number of all entries, so at most 100%.
C18_AvailableOfAllProjects ==
  StatisticsWritten =>
    LET page == statistics_file[1]
        es == entries.list
    IN /\ page.build_systems_available
            = rel(NumberWith(es, LAMBDA x : Get(x["Building"], "Build system")), Len(es))
       /\ page.platform_available = rel(NumberWith(es, LAMBDA x : Get(x, "Platform")), Len(es))
       /\ page.build_systems_available.num <= page.build_systems_available.den
       /\ page.platform_available.num <= page.platform_available.den

\* C19: what update_readme_tocs and update_statistics write is what they write for every
\* other order of the same entries in the store: the TOC documents and the summary, the
\* title listings and the frequency tables of the statistics page.
C19_StoreOrderNotMeaningful ==
  Loaded /\ outcome = "returned" =>
    \A other \in Orders(Range(entries.list)) :
      /\ last_op = "update_readme_tocs" =>
            /\ tocs = WriteTocs(EmptyDir, AllTocs(other))
            /\ TocsText(other) = TocsText(entries.list)
      /\ last_op = "update_statistics" =>
            LET page == statistics_file[1]
            IN /\ page.entries_inactive = entries_inactive(other)
               /\ page.without_download_or_play = without_download_or_play(other)
               /\ page.not_popular = not_popular(other)
               /\ page.c_cpp_project_without_build_system
                    = c_cpp_project_without_build_system(other)
               /\ page.c_cpp_project_not_cmake = c_cpp_project_not_cmake(other)
               /\ page.languages \in FrequencyTables(AllValues(other, "Code language"))
               /\ page.licenses \in FrequencyTables(AllValues(other, "Code license"))
               /\ page.keywords \in FrequencyTables(Collapse(AllValues(other, "Keywords")))
               /\ page.code_dependencies
                    \in FrequencyTables(AllValues(other, "Code dependencies"))
               /\ page.build_systems \in FrequencyTables(build_systems(other))
               /\ page.platforms \in FrequencyTables(AllValues(other, "Platform"))

\* the links of the summary with the bullets counted in the documents of the directory
CountedLinks(docs) ==
  [k \in DOMAIN docs |->
     SummaryLink(docs[k].title, docs[k].file, docs[k].anchor,
                 NumberOfBullets(tocs[docs[k].file]))]

\* C20: after update_readme_tocs has returned, the TOC directory holds the documents of
\* this run and no other file: the four primary documents, one per recommended keyword
\* and one per valid platform, 29 file names that all differ, and the summary in the
\* readme shows for each document the number of its bullets.
C20_WholesaleRegeneration ==
  Updated =>
    LET docs == AllTocs(entries.list)
    IN /\ Len(docs) = 29
       /\ Len(docs) = 4 + Len(recommended_keywords) + Len(valid_platforms)
       /\ \A i, j \in DOMAIN docs : i # j => docs[i].file # docs[j].file
       /\ DOMAIN tocs = {docs[k].file : k \in DOMAIN docs}
       /\ \A k \in DOMAIN docs : tocs[docs[k].file] = TocText(docs[k].title, docs[k].members)
       /\ RegionOf(readme)
            = <<StartMarker,
                join(" - ", CountedLinks(PrimaryTocs(entries.list))), "",
                "By category: "
                  \o join(", ", StableSort(StrLess, CountedLinks(CategoryTocs(entries.list)))),
                "",
                "By platform: " \o join(", ", CountedLinks(PlatformTocs(entries.list))), "",
                EndMarker>>

\* update_readme_tocs has returned on a store of three entries: the directory holds the
\* 29 documents, one of them with two bullets and one with none
C20_Witness ==
  /\ Updated
  /\ Len(entries.list) = 3
  /\ Cardinality(DOMAIN tocs) = 29
  /\ "_stale.md" \notin DOMAIN tocs
  /\ NumberOfBullets(tocs["_linux.md"]) = 2
  /\ NumberOfBullets(tocs["_ios.md"]) = 0

\* C21: a step of update_readme_tocs that ends in the error of the readme structure
\* leaves the readme and the TOC directory, its files and their content, as they were.
C21_AbortWithoutPartialRegeneration ==
  [][(last_op' = "update_readme_tocs"
        /\ outcome' = "RuntimeError: readme file has invalid structure")
       => (readme' = readme /\ tocs' = tocs)]_vars

\* the denominators of the divisions behind the figures of a statistics page
Denominators(page) ==
  {page.mature.den, page.beta.den, page.inactive.den, page.with_code_dependency.den,
   page.build_systems_available.den, page.platform_available.den}
    \cup UNION {{table[i].frequency.den : i \in DOMAIN table} :
                 table \in {page.languages, page.licenses, page.keywords,
                            page.code_dependencies, page.build_systems, page.platforms}}

\* C22: update_statistics does not divide by zero: on a store that is not loaded or is
\* empty it reports that and writes no page, on a loaded store every figure of the page
\* it writes has a denominator that is not zero, and a field for which no entry has a
\* value has an empty frequency table.
C22_NoDivisionByZero ==
  /\ statistics_file # <<>> => \A d \in Denominators(statistics_file[1]) : d > 0
  /\ last_op = "update_statistics" =>
        IF Loaded
        THEN /\ outcome \in {"returned", "TypeError: string indices must be integers"}
             /\ outcome = "returned" =>
                  \A k \in DOMAIN TablesAndValues :
                    TablesAndValues[k][2] = <<>> => TablesAndValues[k][1] = <<>>
        ELSE /\ outcome = "returned"
             /\ console = <<"entries not yet loaded">>
             /\ statistics_file = <<>>

\* the statistics page is written for a store in which no entry has a code dependency,
\* a build system or a platform
C22_Witness ==
  /\ StatisticsWritten
  /\ statistics_file # <<>>
  /\ AllValues(entries.list, "Code dependencies") = <<>>
  /\ build_systems(entries.list) = <<>>
  /\ AllValues(entries.list, "Platform") = <<>>
  /\ statistics_file[1].code_dependencies = <<>>
  /\ statistics_file[1].languages # <<>>

====
